---------------------------- MODULE Spec2Model ----------------------------
(***************************************************************************)
(* A model of src/entropy/entropy.py: the Lempel-Ziv complexity scanner    *)
(* (lziv_complexity, _lz_complexity), the sample / approximate entropy     *)
(* computations (sample_entropy, app_entropy, _numba_sampen,               *)
(* _app_samp_entropy) and the rank-pattern histogram of perm_entropy.      *)
(*                                                                         *)
(* Every call is a run of the state machine: Init draws the arguments of   *)
(* one call from bounded sets, the actions are the steps of the called     *)
(* function, and the run ends in a state that holds the returned value or  *)
(* the exception raised.  Floating-point values are kept exact: a          *)
(* threshold comparison |d| < 0.2*std(x) is decided on integers, and a     *)
(* returned float is a symbolic value (nan, +inf, -inf, or -log(num/den)). *)
(***************************************************************************)
EXTENDS Integers, Sequences, FiniteSets

VARIABLES
    (* lziv_complexity / _lz_complexity *)
    binary_sequence,   \* the argument: [kind |-> "str" | "list", val |-> sequence]
    s,                 \* the string scanned, a sequence of characters
    u, v, w, v_max,    \* the cursors of _lz_complexity
    complexity,        \* the running phrase count
    lzpc,              \* position of the call
    lzret,             \* the value returned by lziv_complexity
    (* sample_entropy / app_entropy / _numba_sampen / _app_samp_entropy *)
    entry,             \* the function called: "sample_entropy", "app_entropy", "_numba_sampen"
    x,                 \* the time series
    order,             \* the embedding dimension
    metric,            \* the metric name
    r,                 \* _numba_sampen's r, kept as its square: a fraction [num, den]
    i, jj,             \* the loop indices of _numba_sampen
    run, run1,         \* its run-length lists
    a, b,              \* its match counters
    sepc,              \* position of the call
    seret,             \* the value returned
    (* perm_entropy *)
    px,                \* the time series
    porder, pdelay,    \* the order and the delay
    sorted_idx,        \* the rank pattern of each embedded row
    hashval,           \* the integer key of each row
    pepc,              \* position of the call
    peret              \* the histogram the entropy is computed from

lzvars == <<binary_sequence, s, u, v, w, v_max, complexity, lzpc, lzret>>

sevars == <<entry, x, order, metric, r, i, jj, run, run1, a, b, sepc, seret>>

pevars == <<px, porder, pdelay, sorted_idx, hashval, pepc, peret>>

vars == <<lzvars, sevars, pevars>>

-----------------------------------------------------------------------------
(* Bounds of the model *)

\* longest string / list handed to lziv_complexity
MaxLen == 6

\* longest time series handed to the entropy functions
MaxN == 6

\* largest embedding dimension
MaxOrder == 2

\* longest time series handed to perm_entropy
MaxPermLen == 6

\* largest order of perm_entropy
MaxPermOrder == 3

\* largest delay of perm_entropy
MaxDelay == 2

-----------------------------------------------------------------------------
(* Helpers *)

SeqsOf(S, lo, hi) == UNION {[1..n -> S] : n \in lo..hi}

Range(f) == {f[k] : k \in DOMAIN f}

RECURSIVE Flatten(_)
Flatten(ss) == IF ss = <<>> THEN <<>> ELSE Head(ss) \o Flatten(Tail(ss))

-----------------------------------------------------------------------------
(* lziv_complexity: conversion of the argument, alphabet check             *)

\* the characters a str argument is drawn from
Chars == {"0", "1", "2"}

\* the integers a list argument is drawn from
ListInts == {0, 1, 10}

DigitChar == <<"0", "1", "2", "3", "4", "5", "6", "7", "8", "9">>

\* str(k) of a non-negative integer: its decimal digits
RECURSIVE IntToStr(_)
IntToStr(k) == IF k < 10 THEN <<DigitChar[k + 1]>>
               ELSE IntToStr(k \div 10) \o <<DigitChar[(k % 10) + 1]>>

\* ''.join(binary_sequence.astype(str)) for a list, the argument itself for a str
JoinAsStr(arg) ==
    IF arg.kind = "list"
    THEN Flatten([k \in DOMAIN arg.val |-> IntToStr(arg.val[k])])
    ELSE arg.val

\* unique_chars = sorted(list(set(s)))
UniqueChars(str) == Range(str)

\* the check of lines 583-585 passes (no AssertionError)
AlphabetCheckPasses(str) ==
    Cardinality(UniqueChars(str)) = 2 => UniqueChars(str) = {"0", "1"}

\* the two strings of the docstring examples
Example16 == <<"1","0","0","1","1","1","1","0","1","1","0","0","0","0","1","0">>
Example10 == <<1, 0, 1, 0, 1, 0, 1, 0, 1, 0>>

\* a str argument: the strings over Chars, and the docstring example
StrArguments == SeqsOf(Chars, 1, MaxLen) \cup {Example16}

\* a list argument: the lists over ListInts, and the docstring example
ListArguments == SeqsOf(ListInts, 1, MaxLen) \cup {Example10}

\* lines 574-580
Convert ==
    /\ lzpc = "convert"
    /\ s' = JoinAsStr(binary_sequence)
    /\ lzpc' = "check"
    /\ UNCHANGED <<binary_sequence, u, v, w, v_max, complexity, lzret>>
    /\ UNCHANGED <<sevars, pevars>>

\* lines 582-585, then the entry of _lz_complexity (lines 477-480)
CheckAlphabet ==
    /\ lzpc = "check"
    /\ IF AlphabetCheckPasses(s)
       THEN /\ lzpc' = "scan"
            /\ u' = 0 /\ v' = 1 /\ w' = 1 /\ v_max' = 1
            /\ complexity' = 1
       ELSE /\ lzpc' = "AssertionError"
            /\ UNCHANGED <<u, v, w, v_max, complexity>>
    /\ UNCHANGED <<binary_sequence, s, lzret>>
    /\ UNCHANGED <<sevars, pevars>>

-----------------------------------------------------------------------------
(* _lz_complexity: one iteration of the while loop, lines 481-501          *)

\* binary_string[k] is inside the string (0-based index k)
InString(str, k) == 0 <= k /\ k < Len(str)

\* the break test after a match, line 484
MatchExhausts(ww, vv, length) == ww + vv >= length

\* the break test after the window is exhausted, line 494
WindowExhausts(ww, length) == ww > length

LzStep ==
    /\ lzpc = "scan"
    /\ IF ~(InString(s, u + v - 1) /\ InString(s, w + v - 1))
       THEN \* the string index is out of range
            /\ lzpc' = "IndexError"
            /\ UNCHANGED <<u, v, w, v_max, complexity>>
       ELSE IF s[u + v] = s[w + v]       \* 1-based: binary_string[u+v-1], [w+v-1]
       THEN /\ v' = v + 1
            /\ IF MatchExhausts(w, v + 1, Len(s))
               THEN complexity' = complexity + 1 /\ lzpc' = "break"
               ELSE UNCHANGED <<complexity, lzpc>>
            /\ UNCHANGED <<u, w, v_max>>
       ELSE LET vm == IF v > v_max THEN v ELSE v_max
            IN  IF u + 1 = w
                THEN /\ complexity' = complexity + 1
                     /\ w' = w + vm
                     /\ IF WindowExhausts(w + vm, Len(s))
                        THEN /\ lzpc' = "break"
                             /\ u' = u + 1
                             /\ v_max' = vm
                             /\ UNCHANGED v
                        ELSE /\ u' = 0 /\ v' = 1 /\ v_max' = 1
                             /\ UNCHANGED lzpc
                ELSE /\ u' = u + 1
                     /\ v' = 1
                     /\ v_max' = vm
                     /\ UNCHANGED <<w, complexity, lzpc>>
    /\ UNCHANGED <<binary_sequence, s, lzret>>
    /\ UNCHANGED <<sevars, pevars>>

\* lines 587-602: the count, or the count over n / log2(n)
Return ==
    /\ lzpc = "break"
    /\ \E normalize \in BOOLEAN :
         lzret' = [kind |-> IF normalize THEN "ratio" ELSE "count",
                   lz |-> complexity, n |-> Len(s)]
    /\ lzpc' = "returned"
    /\ UNCHANGED <<binary_sequence, s, u, v, w, v_max, complexity>>
    /\ UNCHANGED <<sevars, pevars>>

NextLZ == Convert \/ CheckAlphabet \/ LzStep \/ Return

-----------------------------------------------------------------------------
(* The Lempel-Ziv factorization, by its definition: the phrase starting at *)
(* position p is the shortest prefix of the remaining suffix that does not *)
(* occur starting at an earlier position (so ending earlier); when every   *)
(* prefix occurs earlier the rest of the string is the last phrase.        *)

SubStr(str, p, k) == [t \in 1..k |-> str[p + t - 1]]

OccursEarlier(str, p, k) == \E q \in 1..(p - 1) : SubStr(str, q, k) = SubStr(str, p, k)

PhraseLen(str, p) ==
    LET rest == Len(str) - p + 1
        fresh == {k \in 1..rest : ~OccursEarlier(str, p, k)}
    IN  IF fresh = {} THEN rest
        ELSE CHOOSE k \in fresh : \A k2 \in fresh : k <= k2

RECURSIVE PhrasesFrom(_, _)
PhrasesFrom(str, p) ==
    IF p > Len(str) THEN 0 ELSE 1 + PhrasesFrom(str, p + PhraseLen(str, p))

LZPhrases(str) == PhrasesFrom(str, 1)

IsBinary(str) == Range(str) \subseteq {"0", "1"}

LzScanStarted == lzpc \in {"scan", "break", "returned", "IndexError"}

\* C1: for every string over {'0','1'} of length >= 2, lziv_complexity with
\* normalize=False returns the number of phrases of the Lempel-Ziv
\* factorization of the string (it returns, and the count is that number).
C1_ReturnsPhraseCount ==
    (LzScanStarted /\ IsBinary(s) /\ Len(s) >= 2) =>
        /\ lzpc # "IndexError"
        /\ (lzpc = "returned" /\ lzret.kind = "count") => lzret.lz = LZPhrases(s)

\* C4: the factorization scan starts only on inputs whose characters after
\* conversion are all in {'0','1'}; every other input is rejected before it.
C4_RejectsNonBinary == LzScanStarted => IsBinary(s)

\* C6: on a string over {'0','1'} of length >= 1 the cursor loop ends at one
\* of its break statements (never by an exception), and w <= length holds at
\* the start of every iteration.
C6_LoopReachesBreak ==
    (LzScanStarted /\ IsBinary(s) /\ Len(s) >= 1) =>
        /\ lzpc # "IndexError"
        /\ lzpc = "scan" => w <= Len(s)

\* C10: on a string over {'0','1'} of length >= 2 every character the loop
\* compares is inside the string: 0 <= u+v-1 <= L-1 and 0 <= w+v-1 <= L-1.
C10_ReadsInsideString ==
    (lzpc = "scan" /\ IsBinary(s) /\ Len(s) >= 2) =>
        /\ InString(s, u + v - 1)
        /\ InString(s, w + v - 1)

-----------------------------------------------------------------------------
(* Exact arithmetic for the thresholds and the returned floats             *)

Abs(d) == IF d < 0 THEN -d ELSE d

RECURSIVE SumSeq(_)
SumSeq(q) == IF q = <<>> THEN 0 ELSE Head(q) + SumSeq(Tail(q))

\* n * sum((x - mean)^2) = n * sum(x^2) - sum(x)^2, an integer
NSumSqDev(xs) ==
    Len(xs) * SumSeq([k \in DOMAIN xs |-> xs[k] * xs[k]]) - SumSeq(xs) * SumSeq(xs)

\* a float: [kind |-> "fin", num, den] (den > 0), "nan", "inf" or "-inf"
Fin(num, den) == [kind |-> "fin", num |-> num, den |-> den]
NaN == [kind |-> "nan", num |-> 0, den |-> 0]
PosInf == [kind |-> "inf", num |-> 0, den |-> 0]
NegInf == [kind |-> "-inf", num |-> 0, den |-> 0]

\* np.true_divide / np.divide of two non-negative floats, neither infinite
FDiv(p, q) ==
    IF p.kind = "nan" \/ q.kind = "nan" THEN NaN
    ELSE IF q.num = 0
         THEN (IF p.num = 0 THEN NaN ELSE PosInf)
         ELSE Fin(p.num * q.den, p.den * q.num)

\* -log(p) of a non-negative float: the value is kept as [kind |-> "neglog"]
\* of the fraction; log(0) is -inf and log(nan) is nan (no exception)
NegLog(p) ==
    IF p.kind = "nan" THEN NaN
    ELSE IF p.kind = "inf" THEN NegInf
    ELSE IF p.num = 0 THEN PosInf
    ELSE [kind |-> "neglog", num |-> p.num, den |-> p.den]

-----------------------------------------------------------------------------
(* _embed of utils.py and the KDTree radius query                          *)

\* _embed(x, order, delay): row i is [x[i], x[i+delay], ..., x[i+(order-1)*delay]]
Embed(xs, ord, delay) ==
    [row \in 1..(Len(xs) - (ord - 1) * delay) |->
        [k \in 1..ord |-> xs[row + (k - 1) * delay]]]

Max(S) == CHOOSE m \in S : \A k \in S : k <= m

\* the distance of two rows under a KDTree metric
Dist(mt, p, q) ==
    IF mt = "chebyshev"
    THEN Max({Abs(p[k] - q[k]) : k \in DOMAIN p})
    ELSE SumSeq([k \in DOMAIN p |-> Abs(p[k] - q[k])])      \* manhattan

\* KDTree.valid_metrics, as far as the model draws metric names
ValidMetrics == {"chebyshev", "manhattan"}

\* r = 0.2 * np.std(x, ddof=1), line 259, as its square:
\* sum((x-mean)^2) / (25 (n-1))
GenericRadius(xs) ==
    [num |-> NSumSqDev(xs), den |-> 25 * (Len(xs) - 1) * Len(xs)]

\* a distance d is within the radius of a query: d <= r
WithinRadius(d, rr) == d * d * rr.den <= rr.num

\* KDTree(data, metric).query_radius(data, r, count_only=True): for each row the
\* number of rows (itself included) at distance <= r
QueryRadiusCount(data, mt, rr) ==
    [row \in DOMAIN data |->
        Cardinality({k \in DOMAIN data : WithinRadius(Dist(mt, data[row], data[k]), rr)})]

\* emb_data1 of lines 262-266: the last row is dropped unless approximate
EmbData1(xs, ord, approximate) ==
    LET e == Embed(xs, ord, 1)
    IN  IF approximate THEN e ELSE SubSeq(e, 1, Len(e) - 1)

\* np.mean((count - 1) / (shape - 1)), lines 279-280
MeanExcess(count, shape) ==
    IF shape - 1 = 0 THEN NaN
    ELSE Fin(SumSeq([k \in DOMAIN count |-> count[k] - 1]), (shape - 1) * shape)

\* _app_samp_entropy(x, order, metric, approximate=False): phi, lines 258-281
SampPhi(xs, ord, mt) ==
    LET emb1 == EmbData1(xs, ord, FALSE)
        emb2 == Embed(xs, ord + 1, 1)
        rr   == GenericRadius(xs)
    IN  <<MeanExcess(QueryRadiusCount(emb1, mt, rr), Len(emb1)),
          MeanExcess(QueryRadiusCount(emb2, mt, rr), Len(emb2))>>

\* _app_samp_entropy(x, order, metric, approximate=True): the counts whose
\* logarithms are averaged, lines 258-277
ApproxCounts(xs, ord, mt) ==
    LET emb1 == EmbData1(xs, ord, TRUE)
        emb2 == Embed(xs, ord + 1, 1)
        rr   == GenericRadius(xs)
    IN  [count1 |-> QueryRadiusCount(emb1, mt, rr), shape1 |-> Len(emb1),
         count2 |-> QueryRadiusCount(emb2, mt, rr), shape2 |-> Len(emb2)]

\* sample_entropy's generic branch, lines 466-468: -log(phi[1] / phi[0])
GenericSampEn(xs, ord, mt) ==
    LET phi == SampPhi(xs, ord, mt) IN NegLog(FDiv(phi[2], phi[1]))

-----------------------------------------------------------------------------
(* The entropy calls                                                       *)

\* the sample values of a time series
Samples == {0, 1, 11}

\* the metric names a call is given ("cosine" is no KDTree metric)
Metrics == {"chebyshev", "manhattan", "cosine"}

\* r = 0.2, the argument sample_entropy passes (line 464): r^2 = 1/25
DefaultR == [num |-> 1, den |-> 25]

\* the values of r in direct calls of _numba_sampen: r = 1
DirectR == {[num |-> 1, den |-> 1]}

\* sample_entropy takes the fast path below this size, line 463
FastPathSize == 5000

Zeros(k) == [t \in 1..k |-> 0]

\* sample_entropy dispatches on the metric and the size, line 463
TakesFastPath(mt, size) == mt = "chebyshev" /\ size < FastPathSize

\* r *= x.std(), line 295: x.std() is the population standard deviation
\* (ddof = 0), whose square is sum((x-mean)^2) / n
TimesStd(rr, xs) ==
    [num |-> rr.num * NSumSqDev(xs), den |-> rr.den * Len(xs) * Len(xs)]

\* lines 289-303: the threshold and the lists of _numba_sampen before its
\* loops (mm = order + 1)
EnterNumbaSampen ==
    /\ r' = TimesStd(r, x)
    /\ i' = 0 /\ jj' = 0
    /\ run' = Zeros(Len(x))
    /\ run1' = Zeros(Len(x))
    /\ a' = Zeros(order + 1)
    /\ b' = Zeros(order + 1)
    /\ sepc' = IF Len(x) - 1 > 0 THEN "inner" ELSE "shift"

\* sample_entropy's fast branch (lines 462-464), or _numba_sampen called directly
CallFast ==
    /\ sepc = "call"
    /\ \/ entry = "sample_entropy" /\ TakesFastPath(metric, Len(x))
       \/ entry = "_numba_sampen"
    /\ EnterNumbaSampen
    /\ UNCHANGED <<entry, x, order, metric, seret>>
    /\ UNCHANGED <<lzvars, pevars>>

\* sample_entropy's generic branch, lines 465-468 with lines 254-257
CallGenericSampEn ==
    /\ sepc = "call"
    /\ entry = "sample_entropy" /\ ~TakesFastPath(metric, Len(x))
    /\ IF metric \in ValidMetrics
       THEN sepc' = "returned" /\ seret' = GenericSampEn(x, order, metric)
       ELSE sepc' = "ValueError" /\ UNCHANGED seret
    /\ UNCHANGED <<entry, x, order, metric, r, i, jj, run, run1, a, b>>
    /\ UNCHANGED <<lzvars, pevars>>

\* app_entropy, lines 389-390 with lines 254-277: phi[0] - phi[1], each the mean
\* of the logarithms of count / shape
CallAppEntropy ==
    /\ sepc = "call"
    /\ entry = "app_entropy"
    /\ IF metric \in ValidMetrics
       THEN /\ sepc' = "returned"
            /\ seret' = [kind |-> "logmeans", num |-> 0, den |-> 0,
                         counts |-> ApproxCounts(x, order, metric)]
       ELSE sepc' = "ValueError" /\ UNCHANGED seret
    /\ UNCHANGED <<entry, x, order, metric, r, i, jj, run, run1, a, b>>
    /\ UNCHANGED <<lzvars, pevars>>

-----------------------------------------------------------------------------
(* _numba_sampen: the counting loops, lines 305-336                        *)

\* abs(x[j] - x[i]) < r, line 310
MatchFast(d, rr) == d * d * rr.den < rr.num

\* m1 = mm if mm < run[jj] else run[jj], line 312
CapRun(mm, len) == IF mm < len THEN mm ELSE len

\* a counter b that also counts the pairs ending at the last sample
CountsInBAlways(j, n1) == j <= n1

\* the test guarding b[m] += 1, line 315
CountsInB(j, n1) == j < n1

\* the run length stored at run[jj] after a match, line 311
ExtendRun(prev) == prev + 1

\* one pass of the inner loop body, lines 309-318, for the pair (i, j = jj+i+1)
InnerStep ==
    /\ sepc = "inner"
    /\ LET n1 == Len(x) - 1
           nj == n1 - i
           j  == jj + i + 1
       IN  /\ IF MatchFast(Abs(x[j + 1] - x[i + 1]), r)
              THEN LET len == ExtendRun(run1[jj + 1])
                       m1  == CapRun(order + 1, len)
                   IN  /\ run' = [run EXCEPT ![jj + 1] = len]
                       /\ a' = [m \in DOMAIN a |-> IF m <= m1 THEN a[m] + 1 ELSE a[m]]
                       /\ b' = [m \in DOMAIN b |->
                                  IF m <= m1 /\ CountsInB(j, n1) THEN b[m] + 1 ELSE b[m]]
              ELSE /\ run' = [run EXCEPT ![jj + 1] = 0]
                   /\ UNCHANGED <<a, b>>
           /\ IF jj + 1 < nj
              THEN jj' = jj + 1 /\ UNCHANGED sepc
              ELSE jj' = 0 /\ sepc' = "copy"
    /\ UNCHANGED <<entry, x, order, metric, r, i, run1, seret>>
    /\ UNCHANGED <<lzvars, pevars>>

\* the largest list index lines 319-321 use: run[j], run1[j] for j < mm_dbld
CopyInBounds(mmDbld, size) == mmDbld - 1 < size

\* r1 = [0] * (n * mm_dbld), line 300
R1Size(size, mmDbld) == size * mmDbld

\* the largest index of r1 line 321 writes in pass i: r1[i + n * j], j < mm_dbld
R1InBounds(ii, size, mmDbld) == ii + size * (mmDbld - 1) < R1Size(size, mmDbld)

\* lines 319-324: run is copied to run1 (r1, written at line 321, is never
\* read); then the next pass of the outer loop, or the end of the loops
CopyStep ==
    /\ sepc = "copy"
    /\ LET n1     == Len(x) - 1
           nj     == n1 - i
           mmDbld == 2 * (order + 1)
       IN  IF ~(CopyInBounds(mmDbld, Len(x)) /\ R1InBounds(i, Len(x), mmDbld))
           THEN \* run[j] with j = len(run): list index out of range
                /\ sepc' = "IndexError"
                /\ run1' = [k \in DOMAIN run1 |-> run[k]]
                /\ UNCHANGED i
           ELSE /\ run1' = [k \in DOMAIN run1 |->
                              IF k <= mmDbld \/ k <= nj THEN run[k] ELSE run1[k]]
                /\ i' = i + 1
                /\ sepc' = IF i + 1 < n1 THEN "inner" ELSE "shift"
    /\ UNCHANGED <<entry, x, order, metric, r, jj, run, a, b, seret>>
    /\ UNCHANGED <<lzvars, pevars>>

\* lines 326-332: b[m] = b[m-1] for m = mm-1 .. 1, then b[0] = n * n1 / 2
ShiftB(bb, size) ==
    [m \in DOMAIN bb |-> IF m = 1 THEN (size * (size - 1)) \div 2 ELSE bb[m - 1]]

\* lines 326-336: the shift, p = a / b, and the result -log(p[-1])
ShiftAndReturn ==
    /\ sepc = "shift"
    /\ b' = ShiftB(b, Len(x))
    /\ seret' = NegLog(FDiv(Fin(a[Len(a)], 1), Fin(ShiftB(b, Len(x))[Len(b)], 1)))
    /\ sepc' = "returned"
    /\ UNCHANGED <<entry, x, order, metric, r, i, jj, run, run1, a>>
    /\ UNCHANGED <<lzvars, pevars>>

NextSE == CallFast \/ CallGenericSampEn \/ CallAppEntropy
          \/ InnerStep \/ CopyStep \/ ShiftAndReturn

-----------------------------------------------------------------------------
(* Properties of the entropy calls                                         *)

\* the call runs _numba_sampen
FastCall ==
    \/ entry = "_numba_sampen"
    \/ entry = "sample_entropy" /\ TakesFastPath(metric, Len(x))

\* sample_entropy's generic branch is taken and the metric is accepted
GenericCall ==
    entry = "sample_entropy" /\ ~TakesFastPath(metric, Len(x)) /\ metric \in ValidMetrics

IsConstant(xs) == \A p, q \in DOMAIN xs : xs[p] = xs[q]

\* two floats are the same value
SameFloat(p, q) ==
    /\ p.kind = q.kind
    /\ p.kind = "neglog" => p.num * q.den = q.num * p.den

\* the length-len windows starting at p and q (1-based) differ by less than
\* _numba_sampen's threshold r (once line 295 has set it) in every component
WindowsMatchFast(p, q, len) ==
    \A t \in 0..(len - 1) : Abs(x[p + t] - x[q + t]) * Abs(x[p + t] - x[q + t]) * r.den < r.num

\* the pairs p < q among the first count windows of length len that match
PairsFast(len, count) ==
    Cardinality({pq \in (1..count) \X (1..count) :
                    pq[1] < pq[2] /\ WindowsMatchFast(pq[1], pq[2], len)})

\* the same for the generic branch: distance within the KDTree radius
PairsGeneric(len, count) ==
    LET rr == GenericRadius(x)
    IN  Cardinality({pq \in (1..count) \X (1..count) :
                    /\ pq[1] < pq[2]
                    /\ WithinRadius(Dist(metric, SubSeq(x, pq[1], pq[1] + len - 1),
                                         SubSeq(x, pq[2], pq[2] + len - 1)), rr)})

\* C2: on the same series and order, sample_entropy's fast path (Chebyshev,
\* fewer than 5000 samples) returns the value the generic path
\* (_app_samp_entropy with approximate=False) gives: the same match-count ratio.
C2_FastEqualsGeneric ==
    (sepc = "returned" /\ entry = "sample_entropy" /\ TakesFastPath(metric, Len(x)))
        => SameFloat(seret, GenericSampEn(x, order, "chebyshev"))

\* C3: on a constant series app_entropy and sample_entropy end in an error:
\* neither returns a value.
C3_ConstantRaises ==
    (entry \in {"app_entropy", "sample_entropy"} /\ IsConstant(x))
        => sepc # "returned"

\* C5: on a non-constant series with no matching pair of length-(order+1)
\* windows and a matching pair of length-order windows (taken, in the claim's
\* favour, among the first n-order windows the entropy counts), sample_entropy
\* returns +inf on the fast path and on the generic path: it raises nothing
\* and returns nothing else.
C5_NoLongMatchGivesInf ==
    LET cnt == Len(x) - order
    IN  /\ (/\ sepc \in {"returned", "IndexError"}
            /\ entry = "sample_entropy" /\ TakesFastPath(metric, Len(x))
            /\ ~IsConstant(x)
            /\ PairsFast(order + 1, cnt) = 0 /\ PairsFast(order, cnt) > 0)
           => (sepc = "returned" /\ seret.kind = "inf")
        /\ (/\ sepc \in {"returned", "ValueError"}
            /\ GenericCall
            /\ ~IsConstant(x)
            /\ PairsGeneric(order + 1, cnt) = 0 /\ PairsGeneric(order, cnt) > 0)
           => (sepc = "returned" /\ seret.kind = "inf")

\* |d| < 0.2 * std(x, ddof=1): 25 d^2 (n-1) < sum((x - mean)^2)
BelowSampleStdRadius(d, xs) ==
    25 * d * d * (Len(xs) - 1) * Len(xs) < NSumSqDev(xs)

\* C7: every comparison of two samples on sample_entropy's fast path decides
\* |d| < r for r = 0.2 x the sample standard deviation (ddof = 1), that is
\* 25 d^2 (n-1) < sum((x - mean)^2).
C7_RadiusIsSampleStd ==
    (sepc = "inner" /\ entry = "sample_entropy")
        => LET d == Abs(x[jj + i + 2] - x[i + 1])
           IN  MatchFast(d, r) <=> BelowSampleStdRadius(d, x)

\* C8: for n >= 2(order+1), when _numba_sampen's loops and index shift are
\* done, a[order] is the number of pairs i < j of length-(order+1) windows that
\* differ by less than r in every component, and b[order] the number of such
\* pairs among the first n-order windows of length order.
C8_CountsArePairCounts ==
    (sepc = "returned" /\ FastCall /\ Len(x) >= 2 * (order + 1))
        => /\ a[order + 1] = PairsFast(order + 1, Len(x) - order)
           /\ b[order + 1] = PairsFast(order, Len(x) - order)

\* C8's case: order 2, some pair of length-3 windows matches and more pairs of
\* length-2 windows do
C8_Witness ==
    /\ sepc = "returned" /\ FastCall /\ Len(x) >= 2 * (order + 1)
    /\ order = 2
    /\ a[order + 1] >= 1
    /\ b[order + 1] > a[order + 1]

\* the 0-based index k is inside the list
InList(list, k) == 0 <= k /\ k < Len(list)

\* C11: on a series of length n >= order+2 (order >= 1), every list access of
\* _numba_sampen uses an index inside the list: run[jj] and run1[jj] in the
\* inner loop, a[m] and b[m] for m < m1, run[j] and run1[j] for j < mm_dbld and
\* for mm_dbld <= j < nj, r1[i + n*j], and b[m], b[m-1] in the shift; the call
\* never ends in an IndexError.
C11_ListAccessesInBounds ==
    (FastCall /\ Len(x) >= order + 2)
        => LET n1     == Len(x) - 1
               nj     == n1 - i
               mmDbld == 2 * (order + 1)
           IN  /\ sepc # "IndexError"
               /\ sepc = "inner"
                    => /\ InList(run, jj) /\ InList(run1, jj)
                       /\ \A m \in 0..(CapRun(order + 1, ExtendRun(run1[jj + 1])) - 1) :
                              InList(a, m) /\ InList(b, m)
               /\ sepc = "copy"
                    => /\ \A j \in 0..(mmDbld - 1) : InList(run, j) /\ InList(run1, j)
                       /\ R1InBounds(i, Len(x), mmDbld)
                       /\ \A j \in mmDbld..(nj - 1) : InList(run, j) /\ InList(run1, j)
               /\ sepc = "shift"
                    => \A m \in 1..order : InList(b, m) /\ InList(b, m - 1)

-----------------------------------------------------------------------------
(* perm_entropy, lines 81-95                                               *)

\* order ** k
RECURSIVE Power(_, _)
Power(base, k) == IF k = 0 THEN 1 ELSE base * Power(base, k - 1)

\* weights in a base one too small
HashMultSmallBase(ord) == [k \in 1..ord |-> Power(ord - 1, k - 1)]

\* hashmult = np.power(order, range(order)), line 83
HashMult(ord) == [k \in 1..ord |-> Power(ord, k - 1)]

\* the place of row[j] in the sorted row; equal values keep their order (rows
\* of fewer than 17 values are sorted by insertion)
SortedPlace(row, j) ==
    1 + Cardinality({k \in DOMAIN row : row[k] < row[j] \/ (row[k] = row[j] /\ k < j)})

\* row.argsort(): the 0-based indices of the row in sorted order, line 85
ArgSort(row) ==
    [place \in DOMAIN row |-> (CHOOSE j \in DOMAIN row : SortedPlace(row, j) = place) - 1]

\* (np.multiply(sorted_idx, hashmult)).sum(1) for one row, line 87
HashVal(pattern, ord) ==
    SumSeq([k \in DOMAIN pattern |-> pattern[k] * HashMult(ord)[k]])

\* lines 81-85
EmbedAndSort ==
    /\ pepc = "call"
    /\ sorted_idx' = LET e == Embed(px, porder, pdelay)
                     IN  [row \in DOMAIN e |-> ArgSort(e[row])]
    /\ pepc' = "sorted"
    /\ UNCHANGED <<px, porder, pdelay, hashval, peret>>
    /\ UNCHANGED <<lzvars, sevars>>

\* line 87
HashRows ==
    /\ pepc = "sorted"
    /\ hashval' = [row \in DOMAIN sorted_idx |-> HashVal(sorted_idx[row], porder)]
    /\ pepc' = "hashed"
    /\ UNCHANGED <<px, porder, pdelay, sorted_idx, peret>>
    /\ UNCHANGED <<lzvars, sevars>>

\* np.unique(hashval, return_counts=True), line 89: key -> count
UniqueCounts(keys) ==
    [key \in Range(keys) |-> Cardinality({row \in DOMAIN keys : keys[row] = key})]

\* lines 89-95: the entropy of the histogram, divided by log2(order!) if normalize
EntropyOfCounts ==
    /\ pepc = "hashed"
    /\ \E normalize \in BOOLEAN :
         peret' = [c |-> UniqueCounts(hashval), total |-> Len(hashval),
                   normalize |-> normalize]
    /\ pepc' = "returned"
    /\ UNCHANGED <<px, porder, pdelay, sorted_idx, hashval>>
    /\ UNCHANGED <<lzvars, sevars>>

NextPE == EmbedAndSort \/ HashRows \/ EntropyOfCounts

-----------------------------------------------------------------------------
(* Properties of perm_entropy                                              *)

\* the permutations of {0, ..., ord-1}, as sequences
RankPatterns(ord) ==
    {q \in [1..ord -> 0..(ord - 1)] : \A k1, k2 \in 1..ord : q[k1] = q[k2] => k1 = k2}

-----------------------------------------------------------------------------
(* Initial states: the arguments of one call; the other functions are idle *)

LzIdle ==
    /\ binary_sequence = [kind |-> "str", val |-> <<>>]
    /\ s = <<>>
    /\ u = 0 /\ v = 0 /\ w = 0 /\ v_max = 0
    /\ complexity = 0
    /\ lzpc = "idle"
    /\ lzret = [kind |-> "none"]

SeIdle ==
    /\ entry = "none" /\ x = <<>> /\ order = 0 /\ metric = "none"
    /\ r = DefaultR
    /\ i = 0 /\ jj = 0 /\ run = <<>> /\ run1 = <<>> /\ a = <<>> /\ b = <<>>
    /\ sepc = "idle"
    /\ seret = NaN

PeIdle ==
    /\ px = <<>> /\ porder = 0 /\ pdelay = 0
    /\ sorted_idx = <<>> /\ hashval = <<>>
    /\ pepc = "idle"
    /\ peret = [c |-> <<>>, total |-> 0, normalize |-> FALSE]

\* a call of lziv_complexity
InitLZ ==
    /\ \/ \E q \in StrArguments : binary_sequence = [kind |-> "str", val |-> q]
       \/ \E q \in ListArguments : binary_sequence = [kind |-> "list", val |-> q]
    /\ s = <<>>
    /\ u = 0 /\ v = 0 /\ w = 0 /\ v_max = 0
    /\ complexity = 0
    /\ lzpc = "convert"
    /\ lzret = [kind |-> "none"]
    /\ SeIdle /\ PeIdle

\* a call of sample_entropy, app_entropy or _numba_sampen
InitSE ==
    /\ order \in 1..MaxOrder
    /\ x \in SeqsOf(Samples, order + 1, MaxN)
    /\ \/ entry = "sample_entropy" /\ metric \in Metrics /\ r = DefaultR
       \/ entry = "app_entropy" /\ metric \in Metrics /\ r = DefaultR
       \/ entry = "_numba_sampen" /\ metric = "chebyshev" /\ r \in DirectR
    /\ i = 0 /\ jj = 0 /\ run = <<>> /\ run1 = <<>> /\ a = <<>> /\ b = <<>>
    /\ sepc = "call"
    /\ seret = NaN
    /\ LzIdle /\ PeIdle

\* a call of perm_entropy on a series long enough for one embedded row
InitPE ==
    /\ porder \in 2..MaxPermOrder
    /\ pdelay \in 1..MaxDelay
    /\ px \in SeqsOf(Samples, (porder - 1) * pdelay + 1, MaxPermLen)
    /\ sorted_idx = <<>> /\ hashval = <<>>
    /\ pepc = "call"
    /\ peret = [c |-> <<>>, total |-> 0, normalize |-> FALSE]
    /\ LzIdle /\ SeIdle

-----------------------------------------------------------------------------
Init == InitLZ \/ InitSE \/ InitPE

Next == NextLZ \/ NextSE \/ NextPE

Spec == Init /\ [][Next]_vars

SpecLZ == InitLZ /\ [][NextLZ]_vars

SpecSE == InitSE /\ [][NextSE]_vars

SpecPE == InitPE /\ [][NextPE]_vars

=============================================================================
